---- MODULE Spec2Model ----
(***************************************************************************)
(* Model of the lottery-draw backend: the DBManager ingestion pipeline     *)
(* (insertNewRecordsOnly / reloadAllData) run by the batch script against  *)
(* a SQLite file, and the analysis queries (getFrequentCombinations,       *)
(* findCombination) with their request handlers.                           *)
(***************************************************************************)
EXTENDS Integers, Sequences, FiniteSets, TLC

\* ------------------------------------------------------------------------
\* Bounds of the model
\* ------------------------------------------------------------------------
\* longest tabular source (number of parsed records in one file)
MaxSrc == 2
\* largest number of stored draws at which a run that adds key-less rows starts
MaxRows == 3
\* storage faults injected per script run
MaxFaults == 1
\* config.maxPageSize, the largest page the server hands out (scaled down with MaxRows)
maxPageSize == 2
\* requests the server has in progress at the same time
MaxHandlers == 2
\* Database objects of the server open at the same time that are followed
MaxLive == 2

\* ------------------------------------------------------------------------
\* Values: what a JavaScript variable or a SQLite cell can hold.
\*   t = "undef" : JavaScript undefined (a key csv-parser did not produce)
\*   t = "null"  : SQL NULL / JavaScript null
\*   t = "int"   : integer n
\*   t = "real"  : floating-point number of value n
\*   t = "text"  : string s, a sequence of one-character strings
\* ------------------------------------------------------------------------
Undef == [t |-> "undef", n |-> 0, s |-> <<>>]
NullV == [t |-> "null", n |-> 0, s |-> <<>>]
IntV(i) == [t |-> "int", n |-> i, s |-> <<>>]
RealV(i) == [t |-> "real", n |-> i, s |-> <<>>]
TextV(str) == [t |-> "text", n |-> 0, s |-> str]

Digits == <<"0", "1", "2", "3", "4", "5", "6", "7", "8", "9">>

IsDigit(c) == \E i \in 1..Len(Digits) : Digits[i] = c

DigitVal(c) == (CHOOSE i \in 1..Len(Digits) : Digits[i] = c) - 1

\* decimal text of a natural number, as it stands in a CSV cell or a query string
RECURSIVE Dec(_)
Dec(i) == IF i < 10 THEN <<Digits[i + 1]>>
          ELSE Dec(i \div 10) \o <<Digits[(i % 10) + 1]>>

\* a text SQLite accepts as an integer literal: one or more digits, optional sign
IsIntText(str) ==
  LET body == IF Len(str) > 0 /\ str[1] = "-" THEN Tail(str) ELSE str
  IN  Len(body) > 0 /\ \A i \in 1..Len(body) : IsDigit(body[i])

RECURSIVE DigitsVal(_)
DigitsVal(str) == IF Len(str) = 0 THEN 0
                  ELSE 10 * DigitsVal(SubSeq(str, 1, Len(str) - 1)) + DigitVal(str[Len(str)])

IntOfText(str) == IF str[1] = "-" THEN 0 - DigitsVal(Tail(str)) ELSE DigitsVal(str)

\* node-sqlite3 binds a JavaScript value to a statement parameter: an undefined
\* value is skipped and the parameter stays unbound, which SQLite reads as NULL
BindParam(v) == IF v.t = "undef" THEN NullV ELSE v

\* SQLite column affinity applied to a value on its way into a column
Affinity(aff, v) ==
  IF v.t # "text" THEN (IF aff = "REAL" /\ v.t = "int" THEN RealV(v.n) ELSE v)
  ELSE IF aff = "TEXT" THEN v
  ELSE IF IsIntText(v.s) THEN (IF aff = "REAL" THEN RealV(IntOfText(v.s)) ELSE IntV(IntOfText(v.s)))
  ELSE v

\* ------------------------------------------------------------------------
\* The Concursos table
\* ------------------------------------------------------------------------
Cols == <<"CONCURSO", "NPRODUCTO", "R1", "R2", "R3", "R4", "R5", "R6", "R7", "BOLSA", "FECHA">>
ColSet == {Cols[i] : i \in 1..Len(Cols)}
PrimaryCols == <<"R1", "R2", "R3", "R4", "R5", "R6">>

ColAffinity(c) == IF c = "BOLSA" THEN "REAL" ELSE IF c = "FECHA" THEN "TEXT" ELSE "INTEGER"

\* a stored row: one cell per column
RowKey(r) == r["CONCURSO"]

MaxRowId(rows) == IF rows = {} THEN 0
                  ELSE CHOOSE m \in {RowKey(r).n : r \in rows} : \A r \in rows : RowKey(r).n <= m

\* an existence check that never finds a row
SelectByConcursoNone(rows, param) == {}

\* SELECT * FROM Concursos WHERE CONCURSO = ? : the parameter is compared under the
\* column's INTEGER affinity; a NULL or non-numeric parameter matches no row
SelectByConcurso(rows, param) ==
  LET p == Affinity("INTEGER", BindParam(param))
  IN  {r \in rows : p.t = "int" /\ RowKey(r) = p}

\* INSERT INTO Concursos (...) VALUES (?, ..., ?) with the eleven parameters bound
\* from the record. CONCURSO is INTEGER PRIMARY KEY (the rowid): NULL takes the next
\* rowid, a value that is no integer is a datatype mismatch, a stored key is a
\* constraint violation. No other column carries a constraint.
InsertRow(rows, record) ==
  LET cells == [c \in ColSet |-> Affinity(ColAffinity(c), BindParam(record[c]))]
      key == cells["CONCURSO"]
  IN  IF key.t = "null"
      THEN [ok |-> TRUE, err |-> "",
            rows |-> rows \cup {[cells EXCEPT !["CONCURSO"] = IntV(MaxRowId(rows) + 1)]}]
      ELSE IF key.t # "int"
      THEN [ok |-> FALSE, err |-> "SQLITE_MISMATCH: datatype mismatch", rows |-> rows]
      ELSE IF \E r \in rows : RowKey(r) = key
      THEN [ok |-> FALSE, err |-> "SQLITE_CONSTRAINT: UNIQUE constraint failed", rows |-> rows]
      ELSE [ok |-> TRUE, err |-> "", rows |-> rows \cup {cells}]

\* ------------------------------------------------------------------------
\* Tabular sources: the records csv-parser hands to the pipeline. Every cell
\* is text; a column the file does not carry is absent from the record.
\* ------------------------------------------------------------------------
SrcRecord(concurso, prim, r7, bolsa, fecha) ==
  [c \in ColSet |->
     CASE c = "CONCURSO" -> concurso
       [] c = "NPRODUCTO" -> TextV(Dec(40))
       [] c = "R1" -> prim[1]
       [] c = "R2" -> prim[2]
       [] c = "R3" -> prim[3]
       [] c = "R4" -> prim[4]
       [] c = "R5" -> prim[5]
       [] c = "R6" -> prim[6]
       [] c = "R7" -> r7
       [] c = "BOLSA" -> bolsa
       [] c = "FECHA" -> fecha]

NumT(i) == TextV(Dec(i))

\* draw 1 with primaries 7,14,21,28,35,42
RecA == SrcRecord(NumT(1), <<NumT(7), NumT(14), NumT(21), NumT(28), NumT(35), NumT(42)>>,
                  NumT(3), NumT(100), TextV(<<"0", "1", "/", "0", "2">>))
\* draw 2: 42, 7 and 14 again, in other columns
RecB == SrcRecord(NumT(2), <<NumT(42), NumT(7), NumT(1), NumT(14), NumT(3), NumT(4)>>,
                  NumT(21), NumT(250), TextV(<<"0", "8", "/", "0", "2">>))
\* a second record for draw 1, with other field values
RecA2 == SrcRecord(NumT(1), <<NumT(1), NumT(2), NumT(3), NumT(4), NumT(5), NumT(6)>>,
                   NumT(7), NumT(300), TextV(<<"0", "9", "/", "0", "2">>))
\* a record without the CONCURSO key (the file's header does not name the column)
RecNoKey == SrcRecord(Undef, <<NumT(7), NumT(2), NumT(3), NumT(4), NumT(5), NumT(6)>>,
                      NumT(1), NumT(100), TextV(<<"1", "5", "/", "0", "2">>))
\* draw 3, a short line: the cells from R3 on are missing
RecShort == SrcRecord(NumT(3), <<NumT(7), NumT(14), Undef, Undef, Undef, Undef>>,
                      Undef, Undef, Undef)
\* a record whose CONCURSO cell is empty
RecEmptyKey == SrcRecord(TextV(<<>>), <<NumT(1), NumT(2), NumT(3), NumT(4), NumT(5), NumT(6)>>,
                         NumT(7), NumT(100), TextV(<<"2", "2", "/", "0", "2">>))

\* draw 4 with the number 7 in two columns: the cells are stored as they come
RecDup == SrcRecord(NumT(4), <<NumT(7), NumT(7), NumT(14), NumT(21), NumT(28), NumT(35)>>,
                    NumT(2), NumT(100), TextV(<<"2", "9", "/", "0", "2">>))

Catalogue == <<RecA, RecB, RecA2, RecNoKey, RecShort, RecEmptyKey, RecDup>>

\* a source file is a sequence of catalogue records, named by their index
RECURSIVE SeqsUpTo(_, _)
SeqsUpTo(S, len) == IF len = 0 THEN {<<>>}
                    ELSE LET shorter == SeqsUpTo(S, len - 1)
                         IN  shorter \cup {Append(q, x) : q \in {p \in shorter : Len(p) = len - 1}, x \in S}

Sources == SeqsUpTo(1..Len(Catalogue), MaxSrc)

KeylessCount(src) == Cardinality({i \in 1..Len(src) : Catalogue[src[i]]["CONCURSO"].t = "undef"})

\* ------------------------------------------------------------------------
\* State
\* ------------------------------------------------------------------------
VARIABLES
  disk,      \* the database file: [exists, rows] of table Concursos, as committed
  view,      \* the table as the open handle sees it (its uncommitted changes included)
  txn,       \* a transaction is open on the handle
  fk,        \* PRAGMA foreign_keys of the handle
  handle,    \* this.db of the script's DBManager: "absent" or "open"
  pc,        \* position of the batch script
  stack,     \* return points of the calls in progress: [ok, err] labels
  mode,      \* config.operationMode of the run
  records,   \* the records array of insertNewRecordsOnly
  idx,       \* position of the for-loop in records
  err,       \* the error thrown or caught (message chain, outermost first)
  faults,    \* storage faults met so far in the run
  pre,       \* the committed table when the script called the ingestion method
  rerun,     \* the run follows a successful insertNewOnly run and reads the same source
  prev,      \* in such a run: the source of the preceding run
  lastCatch, \* what the last catch block of a DBManager method did
  out,       \* what the script logged at its end
  resp,      \* the answer of the last analysis call
  srv        \* the request layer: this.db of its DBManager and where each handler stands

vars == <<disk, view, txn, fk, handle, pc, stack, mode, records, idx, err, faults,
          pre, rerun, prev, lastCatch, out, resp, srv>>

\* the batch script, the store and the analysis calls
scriptVars == <<disk, view, txn, fk, handle, pc, stack, mode, records, idx, err, faults,
                pre, rerun, prev, lastCatch, out, resp>>

dbVars == <<disk, view, txn, fk>>

NoTable == [exists |-> FALSE, rows |-> {}]
EmptyTable == [exists |-> TRUE, rows |-> {}]
NoCatch == [op |-> "none", cause |-> <<>>, rolledBack |-> FALSE, raised |-> <<>>, dirty |-> FALSE]
NoOut == [status |-> "none", error |-> <<>>]
NoResp == [op |-> "none"]
Modes == {"insertNewOnly", "reloadAll", "other"}

\* the request layer (app.js): the handlers share the one DBManager of the module.
\* srv.db is its this.db: "absent" (undefined or null), "open", or "closing" (the
\* Database object on which close() has been called); srv.live counts the
\* Database objects that open() has returned and no close() has closed yet;
\* srv.h[i] is handler i
Handlers == 1..MaxHandlers
NotCalled == [called |-> FALSE, value |-> FALSE, raised |-> FALSE]
\* a handler with no request: pc is the await it stands at, ret the caller of the
\* isConnected() in progress, seen and probe the handle and the outcome of the
\* "SELECT 1" of the last isConnected(), isc what that call returned, queryOn the
\* handle the query was sent on, closeSaw the handle close() found, closeOn the
\* handle its this.db.close() was called on, cur whether that Database object is
\* still the one this.db refers to, closeRes how close() ended
NoRequest == [pc |-> "idle", ret |-> "none", seen |-> "none", probe |-> "none", isc |-> NotCalled,
              queryOn |-> "none", status |-> "none",
              closeSaw |-> "none", closeOn |-> "none", cur |-> FALSE, closeRes |-> "none"]

Init ==
  /\ disk = NoTable /\ view = NoTable /\ txn = FALSE /\ fk = FALSE
  /\ handle = "absent" /\ pc = "idle" /\ stack = <<>>
  /\ mode = "other" /\ records = <<>> /\ idx = 0 /\ err = <<>> /\ faults = 0
  /\ pre = NoTable /\ prev = <<0>> /\ rerun = FALSE
  /\ lastCatch = NoCatch /\ out = NoOut /\ resp = NoResp
  /\ srv = [db |-> "absent", live |-> 0, h |-> [i \in Handlers |-> NoRequest]]

\* ------------------------------------------------------------------------
\* SQLite, as the handle executes one statement in the current state.
\* A write outside a transaction is committed at once (autocommit).
\* ------------------------------------------------------------------------
SqlOk(d, v, t, f, val) == [ok |-> TRUE, err |-> "", disk |-> d, view |-> v, txn |-> t, fk |-> f, value |-> val]
SqlError(msg) == [ok |-> FALSE, err |-> msg, disk |-> disk, view |-> view, txn |-> txn, fk |-> fk, value |-> FALSE]

Write(v) == SqlOk(IF txn THEN disk ELSE v, v, txn, fk, FALSE)

Exec(sql) ==
  CASE sql = "BEGIN" ->
         IF txn THEN SqlError("SQLITE_ERROR: cannot start a transaction within a transaction")
         ELSE SqlOk(disk, view, TRUE, fk, FALSE)
    [] sql = "COMMIT" ->
         IF ~txn THEN SqlError("SQLITE_ERROR: cannot commit - no transaction is active")
         ELSE SqlOk(view, view, FALSE, fk, FALSE)
    [] sql = "ROLLBACK" ->
         IF ~txn THEN SqlError("SQLITE_ERROR: cannot rollback - no transaction is active")
         ELSE SqlOk(disk, disk, FALSE, fk, FALSE)
    [] sql = "PRAGMA_FK_OFF" -> SqlOk(disk, view, txn, IF txn THEN fk ELSE FALSE, FALSE)
    [] sql = "PRAGMA_FK_ON" -> SqlOk(disk, view, txn, IF txn THEN fk ELSE TRUE, FALSE)
    [] sql = "DROP" -> Write(NoTable)
    [] sql = "CREATE" -> IF view.exists THEN SqlOk(disk, view, txn, fk, FALSE) ELSE Write(EmptyTable)
    [] sql = "TABLE_EXISTS" -> SqlOk(disk, view, txn, fk, view.exists)

\* a storage fault: SQLITE_BUSY leaves an open transaction open, SQLITE_IOERR
\* makes SQLite roll it back on its own
FaultKinds == {"SQLITE_BUSY: database is locked", "SQLITE_IOERR: disk I/O error"}

\* ------------------------------------------------------------------------
\* The methods of DBManager as programs: per label the statement it awaits,
\* where control goes next, where a failure is caught and how it is wrapped.
\* next = "return" leaves the method; catch = "throw" lets the error leave it.
\* ------------------------------------------------------------------------
Sql(stmt, next, catch, wrap) == [kind |-> "sql", sql |-> stmt, next |-> next, catch |-> catch, wrap |-> wrap]
Call(entry, next, catch) == [kind |-> "call", sql |-> entry, next |-> next, catch |-> catch, wrap |-> <<>>]

\* createTableIfNotExists that drops the table where it looks for it
createTableIfNotExistsDropFirst(l) ==
  CASE l = "ct_exists" -> Sql("DROP", "ct_create", "throw", <<"Error verificando la existencia de la tabla">>)
    [] l = "ct_create" -> Sql("CREATE", "return", "throw", <<"Error creando la tabla 'Concursos'">>)

createTableIfNotExists(l) ==
  CASE l = "ct_exists" -> Sql("TABLE_EXISTS", "ct_create", "throw", <<"Error verificando la existencia de la tabla">>)
    [] l = "ct_create" -> Sql("CREATE", "return", "throw", <<"Error creando la tabla 'Concursos'">>)

\* insertNewRecordsOnly with a write of the table ahead of the scan
insertNewRecordsOnlyWriteFirst(l) ==
  CASE l = "ins_begin" -> Sql("DROP", "ins_scan", "ins_catch", <<>>)
    [] l = "ins_get" -> Sql("SELECT_CONCURSO", "ins_insert", "ins_catch", <<"Error obteniendo datos">>)
    [] l = "ins_insert" -> Sql("INSERT", "ins_get", "ins_catch", <<"Error ejecutando query">>)
    [] l = "ins_commit" -> Sql("COMMIT", "return", "ins_catch", <<>>)
    [] l = "ins_catch" -> Sql("ROLLBACK", "throw", "throw", <<"Error insertando nuevos registros">>)

\* insertNewRecordsOnly with a PRAGMA where it has BEGIN TRANSACTION
insertNewRecordsOnlyNoBegin(l) ==
  CASE l = "ins_begin" -> Sql("PRAGMA_FK_ON", "ins_scan", "ins_catch", <<>>)
    [] l = "ins_get" -> Sql("SELECT_CONCURSO", "ins_insert", "ins_catch", <<"Error obteniendo datos">>)
    [] l = "ins_insert" -> Sql("INSERT", "ins_get", "ins_catch", <<"Error ejecutando query">>)
    [] l = "ins_commit" -> Sql("COMMIT", "return", "ins_catch", <<>>)
    [] l = "ins_catch" -> Sql("ROLLBACK", "throw", "throw", <<"Error insertando nuevos registros">>)

\* insertNewRecordsOnly that opens a transaction where it has COMMIT
insertNewRecordsOnlyNoCommit(l) ==
  CASE l = "ins_begin" -> Sql("BEGIN", "ins_scan", "ins_catch", <<>>)
    [] l = "ins_get" -> Sql("SELECT_CONCURSO", "ins_insert", "ins_catch", <<"Error obteniendo datos">>)
    [] l = "ins_insert" -> Sql("INSERT", "ins_get", "ins_catch", <<"Error ejecutando query">>)
    [] l = "ins_commit" -> Sql("BEGIN", "return", "ins_catch", <<>>)
    [] l = "ins_catch" -> Sql("ROLLBACK", "throw", "throw", <<"Error insertando nuevos registros">>)

insertNewRecordsOnly(l) ==
  CASE l = "ins_begin" -> Sql("BEGIN", "ins_scan", "ins_catch", <<>>)
    [] l = "ins_get" -> Sql("SELECT_CONCURSO", "ins_insert", "ins_catch", <<"Error obteniendo datos">>)
    [] l = "ins_insert" -> Sql("INSERT", "ins_get", "ins_catch", <<"Error ejecutando query">>)
    [] l = "ins_commit" -> Sql("COMMIT", "return", "ins_catch", <<>>)
    [] l = "ins_catch" -> Sql("ROLLBACK", "throw", "throw", <<"Error insertando nuevos registros">>)

\* reloadAllData without its own BEGIN TRANSACTION
reloadAllDataNoBegin(l) ==
  CASE l = "rl_begin" -> Sql("PRAGMA_FK_OFF", "rl_drop", "rl_catch", <<>>)
    [] l = "rl_fk_off" -> Sql("PRAGMA_FK_OFF", "rl_drop", "rl_catch", <<>>)
    [] l = "rl_drop" -> Sql("DROP", "rl_create", "rl_catch", <<>>)
    [] l = "rl_create" -> Call("ct_exists", "rl_insert", "rl_catch")
    [] l = "rl_insert" -> Call("ins_begin", "rl_fk_on", "rl_catch")
    [] l = "rl_fk_on" -> Sql("PRAGMA_FK_ON", "rl_commit", "rl_catch", <<>>)
    [] l = "rl_commit" -> Sql("COMMIT", "return", "rl_catch", <<>>)
    [] l = "rl_catch" -> Sql("ROLLBACK", "throw", "throw", <<"Error recargando todos los datos">>)

reloadAllData(l) ==
  CASE l = "rl_begin" -> Sql("BEGIN", "rl_fk_off", "rl_catch", <<>>)
    [] l = "rl_fk_off" -> Sql("PRAGMA_FK_OFF", "rl_drop", "rl_catch", <<>>)
    [] l = "rl_drop" -> Sql("DROP", "rl_create", "rl_catch", <<>>)
    [] l = "rl_create" -> Call("ct_exists", "rl_insert", "rl_catch")
    [] l = "rl_insert" -> Call("ins_begin", "rl_fk_on", "rl_catch")
    [] l = "rl_fk_on" -> Sql("PRAGMA_FK_ON", "rl_commit", "rl_catch", <<>>)
    [] l = "rl_commit" -> Sql("COMMIT", "return", "rl_catch", <<>>)
    [] l = "rl_catch" -> Sql("ROLLBACK", "throw", "throw", <<"Error recargando todos los datos">>)

\* the script's calls into DBManager; its catch block is sc_catch
main(l) ==
  CASE l = "sc_create" -> Call("ct_exists", "dispatch", "sc_catch")
    [] l = "sc_insert" -> Call("ins_begin", "sc_done", "sc_catch")
    [] l = "sc_reload" -> Call("rl_begin", "sc_done", "sc_catch")

CtLabels == {"ct_exists", "ct_create"}
InsLabels == {"ins_begin", "ins_get", "ins_insert", "ins_commit", "ins_catch"}
RlLabels == {"rl_begin", "rl_fk_off", "rl_drop", "rl_create", "rl_insert", "rl_fk_on", "rl_commit", "rl_catch"}
ScLabels == {"sc_create", "sc_insert", "sc_reload"}

Program(l) ==
  CASE l \in CtLabels -> createTableIfNotExists(l)
    [] l \in InsLabels -> insertNewRecordsOnly(l)
    [] l \in RlLabels -> reloadAllData(l)
    [] l \in ScLabels -> main(l)

\* labels at which one plain statement is awaited
StmtLabels == {"ct_exists", "ct_create", "ins_begin", "ins_commit",
               "rl_begin", "rl_fk_off", "rl_drop", "rl_fk_on", "rl_commit"}
CallLabels == {"sc_create", "sc_insert", "sc_reload", "rl_create", "rl_insert"}
CatchLabels == {"ins_catch", "rl_catch"}
\* labels at which a storage fault can strike
FaultLabels == StmtLabels \cup {"ins_get", "ins_insert"}

\* control leaves the awaited statement: on to `next`, or out of the method
Goto(next) ==
  IF next = "return" THEN pc' = Head(stack).ok /\ stack' = Tail(stack)
  ELSE pc' = next /\ UNCHANGED stack

\* an error e is thrown where failures go to `catch`; the records array and the
\* loop position are locals of the try block that is left
Throw(e, catch) ==
  /\ err' = e /\ records' = <<>> /\ idx' = 0
  /\ IF catch = "throw" THEN pc' = Head(stack).err /\ stack' = Tail(stack)
     ELSE pc' = catch /\ UNCHANGED stack

SetDb(r) == disk' = r.disk /\ view' = r.view /\ txn' = r.txn /\ fk' = r.fk

\* ------------------------------------------------------------------------
\* The batch script (one run = one process) and the methods it calls
\* ------------------------------------------------------------------------
Start(m) ==
  /\ pc = "idle" /\ resp = NoResp
  /\ pc' = "download" /\ mode' = m
  /\ faults' = 0 /\ pre' = disk /\ err' = <<>> /\ records' = <<>> /\ idx' = 0
  /\ prev' = <<0>> /\ rerun' = FALSE /\ lastCatch' = NoCatch /\ out' = NoOut /\ resp' = NoResp
  /\ UNCHANGED <<disk, view, txn, fk, handle, stack>>
  /\ UNCHANGED srv

\* a download whose failure is logged and not thrown again
DownloadSwallowsError ==
  /\ pc = "download"
  /\ \/ pc' = "connect" /\ UNCHANGED err
     \/ pc' = "connect" /\ err' = <<"Error en la función fetch de descarga">>
  /\ UNCHANGED <<disk, view, txn, fk, handle, stack, mode, records, idx, faults,
                 pre, prev, rerun, lastCatch, out, resp>>
  /\ UNCHANGED srv

\* await fileManager.downloadFile(...)
Download ==
  /\ pc = "download"
  /\ \/ pc' = "connect" /\ UNCHANGED err
     \/ pc' = "sc_catch" /\ err' = <<"Error en la función fetch de descarga">>
  /\ UNCHANGED <<disk, view, txn, fk, handle, stack, mode, records, idx, faults,
                 pre, prev, rerun, lastCatch, out, resp>>
  /\ UNCHANGED srv

\* await dbManager.connect()
connect ==
  /\ pc = "connect"
  /\ \/ /\ handle' = "open" /\ view' = disk /\ txn' = FALSE /\ fk' = FALSE
        /\ pc' = "sc_create" /\ UNCHANGED err
     \/ /\ pc' = "sc_catch" /\ err' = <<"Failed to open database connection">>
        /\ UNCHANGED <<handle, view, txn, fk>>
  /\ UNCHANGED <<disk, stack, mode, records, idx, faults, pre, prev, rerun, lastCatch, out, resp>>
  /\ UNCHANGED srv

\* a method is called: its return points are pushed
CallStep ==
  /\ pc \in CallLabels
  /\ LET p == Program(pc)
     IN  /\ stack' = <<[ok |-> p.next, err |-> p.catch]>> \o stack
         /\ pc' = p.sql
  /\ pre' = IF pc \in {"sc_insert", "sc_reload"} THEN disk ELSE pre
  /\ UNCHANGED <<disk, view, txn, fk, handle, mode, records, idx, err, faults,
                 prev, rerun, lastCatch, out, resp>>
  /\ UNCHANGED srv

\* one awaited statement runs to its end
Step ==
  /\ pc \in StmtLabels
  /\ LET p == Program(pc)
         r == Exec(p.sql)
     IN  /\ SetDb(r)
         /\ IF r.ok
            THEN Goto(IF p.sql = "TABLE_EXISTS" /\ r.value THEN "return" ELSE p.next)
                 /\ UNCHANGED <<err, records, idx>>
            ELSE Throw(p.wrap \o <<r.err>>, p.catch)
  /\ UNCHANGED <<handle, mode, faults, pre, prev, rerun, lastCatch, out, resp>>
  /\ UNCHANGED srv

\* the awaited statement fails on a storage fault (at the end of the for-loop
\* no statement is awaited)
StorageFault ==
  /\ pc \in FaultLabels
  /\ pc = "ins_get" => idx <= Len(records)
  /\ faults < MaxFaults
  /\ faults' = faults + 1
  /\ \E k \in FaultKinds :
       LET p == Program(pc)
           lost == txn /\ k = "SQLITE_IOERR: disk I/O error"
       IN  /\ txn' = (txn /\ ~lost)
           /\ view' = IF lost THEN disk ELSE view
           /\ Throw(p.wrap \o <<k>>, p.catch)
  /\ UNCHANGED <<disk, fk, handle, mode, pre, prev, rerun, lastCatch, out, resp>>
  /\ UNCHANGED srv

\* if (operationMode === 'insertNewOnly') ... else if (... === 'reloadAll') ... else warn
Dispatch ==
  /\ pc = "dispatch"
  /\ pc' = CASE mode = "insertNewOnly" -> "sc_insert"
             [] mode = "reloadAll" -> "sc_reload"
             [] OTHER -> "sc_done"
  /\ UNCHANGED <<disk, view, txn, fk, handle, stack, mode, records, idx, err, faults,
                 pre, prev, rerun, lastCatch, out, resp>>
  /\ UNCHANGED srv

\* the source is read and parsed into the records array
ScanOk ==
  /\ pc = "ins_scan"
  /\ \E src \in Sources :
       /\ rerun => src = prev
       /\ Cardinality(view.rows) + KeylessCount(src) <= MaxRows
       /\ records' = src
  /\ idx' = 1 /\ pc' = "ins_get"
  /\ UNCHANGED <<disk, view, txn, fk, handle, stack, mode, err, faults, pre, prev, rerun,
                 lastCatch, out, resp>>
  /\ UNCHANGED srv

\* csv-parser emits 'error': the promise is rejected
ScanParseError ==
  /\ pc = "ins_scan"
  /\ faults < MaxFaults /\ faults' = faults + 1
  /\ Throw(<<"csv-parser: row exceeds the maximum size">>, "ins_catch")
  /\ UNCHANGED <<disk, view, txn, fk, handle, mode, pre, prev, rerun, lastCatch, out, resp>>
  /\ UNCHANGED srv

\* the read stream emits 'error': no listener is attached to it (the listener is on
\* the parser the stream is piped into), the process ends on the uncaught exception
ScanReadError ==
  /\ pc = "ins_scan"
  /\ faults < MaxFaults /\ faults' = faults + 1
  /\ pc' = "crashed" /\ stack' = <<>>
  /\ handle' = "absent" /\ txn' = FALSE /\ view' = disk
  /\ err' = <<"ENOENT: no such file or directory">>
  /\ out' = [status |-> "crash", error |-> <<>>]
  /\ UNCHANGED <<disk, fk, mode, records, idx, pre, prev, rerun, lastCatch, resp>>
  /\ UNCHANGED srv

\* for (const record of records): the existence check of the next record
InsGet ==
  /\ pc = "ins_get"
  /\ IF idx > Len(records)
     THEN pc' = "ins_commit" /\ UNCHANGED <<records, idx, err, stack>>
     ELSE IF ~view.exists
     THEN Throw(insertNewRecordsOnly(pc).wrap \o <<"SQLITE_ERROR: no such table: Concursos">>, "ins_catch")
     ELSE IF SelectByConcurso(view.rows, Catalogue[records[idx]]["CONCURSO"]) # {}
     THEN idx' = idx + 1 /\ UNCHANGED <<records, pc, err, stack>>
     ELSE pc' = "ins_insert" /\ UNCHANGED <<records, idx, err, stack>>
  /\ UNCHANGED <<disk, view, txn, fk, handle, mode, faults, pre, prev, rerun, lastCatch, out, resp>>
  /\ UNCHANGED srv

\* the INSERT of a record that was not found
InsInsert ==
  /\ pc = "ins_insert"
  /\ LET r == InsertRow(view.rows, Catalogue[records[idx]])
     IN  IF r.ok
         THEN /\ SetDb(Write([view EXCEPT !.rows = r.rows]))
              /\ idx' = idx + 1 /\ pc' = "ins_get" /\ UNCHANGED <<records, err, stack>>
         ELSE /\ Throw(insertNewRecordsOnly(pc).wrap \o <<r.err>>, "ins_catch")
              /\ UNCHANGED <<disk, view, txn, fk>>
  /\ UNCHANGED <<handle, mode, faults, pre, prev, rerun, lastCatch, out, resp>>
  /\ UNCHANGED srv

\* catch (err) { await this.db.run('ROLLBACK'); throw new Error(`...: ${err.message}`); }
Catch ==
  /\ pc \in CatchLabels
  /\ LET p == Program(pc)
         r == Exec("ROLLBACK")
         raised == IF r.ok THEN p.wrap \o err ELSE <<r.err>>
     IN  /\ SetDb(r)
         /\ lastCatch' = [op |-> pc, cause |-> err, rolledBack |-> r.ok, raised |-> raised,
                          dirty |-> (lastCatch.dirty \/ view # disk)]
         /\ Throw(raised, "throw")
  /\ UNCHANGED <<handle, mode, faults, pre, prev, rerun, out, resp>>
  /\ UNCHANGED srv

\* console.log('Operaciones completadas exitosamente!')
ScriptDone ==
  /\ pc = "sc_done"
  /\ out' = [status |-> "ok", error |-> <<>>]
  /\ pc' = "close"
  /\ UNCHANGED <<disk, view, txn, fk, handle, stack, mode, records, idx, err, faults,
                 pre, prev, rerun, lastCatch, resp>>
  /\ UNCHANGED srv

\* catch (error) { logger.error(...) }
ScriptCatch ==
  /\ pc = "sc_catch"
  /\ out' = [status |-> "error", error |-> err]
  /\ pc' = "close"
  /\ UNCHANGED <<disk, view, txn, fk, handle, stack, mode, records, idx, err, faults,
                 pre, prev, rerun, lastCatch, resp>>
  /\ UNCHANGED srv

\* finally { await dbManager.close() }: the handle goes, and with it any open transaction
close ==
  /\ pc = "close"
  /\ handle' = "absent" /\ txn' = FALSE /\ view' = disk
  /\ pc' = "idle"
  /\ mode' = "other" /\ records' = <<>> /\ idx' = 0 /\ err' = <<>> /\ faults' = 0
  /\ pre' = disk /\ prev' = <<0>> /\ rerun' = FALSE /\ lastCatch' = NoCatch /\ out' = NoOut
  /\ UNCHANGED <<disk, fk, stack, resp>>
  /\ UNCHANGED srv

\* this.db.close() is rejected: catch (error) { logger.error(...) } and close returns
\* normally, the script ends with the handle still open
closeFails ==
  /\ pc = "close" /\ handle = "open"
  /\ faults < MaxFaults /\ faults' = faults + 1
  /\ lastCatch' = [op |-> "close_catch", cause |-> <<"SQLITE_BUSY: database is locked">>,
                   rolledBack |-> FALSE, raised |-> <<>>, dirty |-> lastCatch.dirty]
  /\ pc' = "exit"
  /\ UNCHANGED <<disk, view, txn, fk, handle, stack, mode, records, idx, err,
                 pre, prev, rerun, out, resp>>
  /\ UNCHANGED srv

\* the process of the script ends: its handle goes with it
ProcessExit ==
  /\ pc = "exit"
  /\ handle' = "absent" /\ txn' = FALSE /\ view' = disk
  /\ pc' = "idle"
  /\ mode' = "other" /\ records' = <<>> /\ idx' = 0 /\ err' = <<>> /\ faults' = 0
  /\ pre' = disk /\ prev' = <<0>> /\ rerun' = FALSE /\ lastCatch' = NoCatch /\ out' = NoOut
  /\ UNCHANGED <<disk, fk, stack, resp>>
  /\ UNCHANGED srv

\* the script ends after a successful insertNewOnly and is run again at once on
\* the same source file
RunAgain ==
  /\ pc = "close" /\ mode = "insertNewOnly" /\ out.status = "ok" /\ resp = NoResp
  /\ Cardinality(disk.rows) + KeylessCount(records) <= MaxRows
  /\ handle' = "absent" /\ txn' = FALSE /\ view' = disk
  /\ pc' = "download"
  /\ prev' = records /\ rerun' = TRUE
  /\ records' = <<>> /\ idx' = 0 /\ err' = <<>> /\ faults' = 0
  /\ pre' = disk /\ lastCatch' = NoCatch /\ out' = NoOut
  /\ UNCHANGED <<disk, fk, stack, mode, resp>>
  /\ UNCHANGED srv

\* the crashed process is gone; the script can be started again
Restart ==
  /\ pc = "crashed"
  /\ pc' = "idle"
  /\ mode' = "other" /\ records' = <<>> /\ idx' = 0 /\ err' = <<>> /\ faults' = 0
  /\ pre' = disk /\ prev' = <<0>> /\ rerun' = FALSE /\ lastCatch' = NoCatch /\ out' = NoOut
  /\ UNCHANGED <<disk, view, txn, fk, handle, stack, resp>>
  /\ UNCHANGED srv

\* ------------------------------------------------------------------------
\* Analysis: getFrequentCombinations and findCombination, and the request
\* handlers of the server. The server reads the committed table.
\* ------------------------------------------------------------------------
\* how many combinations the ranking keeps: .slice(0, 20)
TopN == 20

\* SQL three-valued logic: "T", "F" or "N" (NULL)
Eq3(a, b) == IF a.t = "null" \/ b.t = "null" THEN "N" ELSE IF a = b THEN "T" ELSE "F"
Or3(S) == IF "T" \in S THEN "T" ELSE IF "N" \in S THEN "N" ELSE "F"
And3(S) == IF "F" \in S THEN "F" ELSE IF "N" \in S THEN "N" ELSE "T"

\* the i-th positional parameter of a statement run with the array `params`:
\* a placeholder beyond the array stays unbound, which SQLite reads as NULL
ParamAt(params, i) == IF i <= Len(params) THEN BindParam(IntV(params[i])) ELSE NullV

\* WHERE (R1 = ? OR ... OR R6 = ?) AND ... with one parenthesis per candidate:
\* the placeholders are numbered through, six to a parenthesis
WhereCombination(row, n, params) ==
  And3({Or3({Eq3(row[PrimaryCols[c]], ParamAt(params, 6 * (g - 1) + c)) : c \in 1..6}) : g \in 1..n})

\* SELECT COUNT(*) AS frecuencia FROM Concursos WHERE <n parentheses>, run with params
CountCombination(table, n, params) ==
  IF n = 0 THEN [ok |-> FALSE, err |-> "SQLITE_ERROR: incomplete input", value |-> 0]
  ELSE IF ~table.exists THEN [ok |-> FALSE, err |-> "SQLITE_ERROR: no such table: Concursos", value |-> 0]
  ELSE [ok |-> TRUE, err |-> "",
        value |-> Cardinality({r \in table.rows : WhereCombination(r, n, params) = "T"})]

\* candidate lists a caller can pass; IsNull stands for null or undefined
List(q) == [isNull |-> FALSE, list |-> q]
NullList == [isNull |-> TRUE, list |-> <<>>]
CandidateLists == {NullList, List(<<>>), List(<<7>>), List(<<42>>), List(<<14>>), List(<<9>>),
                   List(<<7, 14>>), List(<<14, 7>>), List(<<7, 7>>), List(<<7, 14, 21>>)}

\* DBManager.findCombination(numeros)
findCombination(numeros) ==
  IF numeros.isNull
  THEN [op |-> "findCombination", input |-> numeros, status |-> "error", value |-> 0,
        error |-> <<"Error al buscar combinación">>, sent |-> 0]
  ELSE LET r == CountCombination(disk, Len(numeros.list), numeros.list)
       IN  IF r.ok
           THEN [op |-> "findCombination", input |-> numeros, status |-> "ok", value |-> r.value,
                 error |-> <<>>, sent |-> 1]
           ELSE [op |-> "findCombination", input |-> numeros, status |-> "error", value |-> 0,
                 error |-> <<"Error al buscar combinación">>, sent |-> 1]

\* app.post('/buscar-combinacion'): status and body of the reply; sent counts the
\* statements on the draw table handed to the database
BuscarCombinacion(numeros) ==
  IF numeros.isNull
  THEN [op |-> "POST /buscar-combinacion", input |-> numeros, status |-> "500", value |-> 0,
        error |-> <<"Error al buscar la combinación.">>, sent |-> 0]
  ELSE LET r == CountCombination(disk, Len(numeros.list), numeros.list)
       IN  IF r.ok
           THEN [op |-> "POST /buscar-combinacion", input |-> numeros, status |-> "200", value |-> r.value,
                 error |-> <<>>, sent |-> 1]
           ELSE [op |-> "POST /buscar-combinacion", input |-> numeros, status |-> "500", value |-> 0,
                 error |-> <<"Error al buscar la combinación.">>, sent |-> 1]

FindCombinationCall ==
  /\ pc = "idle" /\ resp = NoResp
  /\ \E numeros \in CandidateLists : resp' = findCombination(numeros)
  /\ UNCHANGED <<disk, view, txn, fk, handle, pc, stack, mode, records, idx, err, faults,
                 pre, prev, rerun, lastCatch, out>>
  /\ UNCHANGED srv

BuscarCombinacionRequest ==
  /\ pc = "idle" /\ resp = NoResp
  /\ \E numeros \in CandidateLists : resp' = BuscarCombinacion(numeros)
  /\ UNCHANGED <<disk, view, txn, fk, handle, pc, stack, mode, records, idx, err, faults,
                 pre, prev, rerun, lastCatch, out>>
  /\ UNCHANGED srv

\* the stored rows in rowid order, as a full scan of the table returns them
RECURSIVE RowsInOrder(_)
RowsInOrder(rows) ==
  IF rows = {} THEN <<>>
  ELSE LET first == CHOOSE r \in rows : \A q \in rows : RowKey(r).n <= RowKey(q).n
       IN  <<first>> \o RowsInOrder(rows \ {first})

\* combinations(iterable, r) of combinatorial-generators: the r-element
\* subsequences in lexicographic order of their positions
RECURSIVE combinations(_, _)
combinations(numbers, k) ==
  IF k = 0 THEN <<<<>>>>
  ELSE IF Len(numbers) < k THEN <<>>
  ELSE LET with == combinations(Tail(numbers), k - 1)
       IN  [i \in 1..Len(with) |-> <<Head(numbers)>> \o with[i]] \o combinations(Tail(numbers), k)

\* JavaScript ToNumber of a cell value read from an INTEGER column: null is 0
ToNumber(v) == IF v.t = "int" \/ v.t = "real" THEN v.n ELSE 0

\* Array.prototype.sort, which is stable, under a comparator that orders by a
\* number: rank[i] is the number of q[i]. The positions are taken rank by rank from
\* the smallest, in their original order within one rank.
RECURSIVE SortedPositions(_, _)
SortedPositions(rank, ranks) ==
  IF ranks = {} THEN <<>>
  ELSE LET least == CHOOSE m \in ranks : \A r \in ranks : m <= r
       IN  SelectSeq([i \in 1..Len(rank) |-> i], LAMBDA i : rank[i] = least)
           \o SortedPositions(rank, ranks \ {least})

Sort(q, rank) ==
  LET at == SortedPositions(rank, {rank[i] : i \in 1..Len(rank)})
  IN  [i \in 1..Len(q) |-> q[at[i]]]

\* combo.sort((a, b) => a - b)
SortAscending(combo) == Sort(combo, [i \in 1..Len(combo) |-> ToNumber(combo[i])])
\* the entries sorted by frequency the other way round, smallest first
SortByFrequencyAscending(entries) == Sort(entries, [i \in 1..Len(entries) |-> entries[i].frequency])
\* .sort((a, b) => b.frequency - a.frequency)
SortByFrequency(entries) == Sort(entries, [i \in 1..Len(entries) |-> 0 - entries[i].frequency])

\* String(v) as Array.prototype.join applies it: null and undefined give ''
StringOf(v) == IF v.t = "int" \/ v.t = "real" THEN (IF v.n < 0 THEN <<"-">> \o Dec(0 - v.n) ELSE Dec(v.n))
               ELSE IF v.t = "text" THEN v.s ELSE <<>>

RECURSIVE join(_)
join(combo) == IF Len(combo) = 0 THEN <<>>
               ELSE IF Len(combo) = 1 THEN StringOf(combo[1])
               ELSE StringOf(combo[1]) \o <<",">> \o join(Tail(combo))

\* a property name that is an array index: own properties with such names are
\* enumerated first, in ascending numeric order, before the others in insertion order
IsArrayIndex(key) ==
  /\ Len(key) > 0 /\ \A i \in 1..Len(key) : IsDigit(key[i])
  /\ (Len(key) = 1 \/ key[1] # "0")
  /\ Len(key) <= 9

\* combinationFrequency[key] = (combinationFrequency[key] || 0) + 1, for each key in
\* turn: one property per distinct key, created at the key's first occurrence
Tally(keys) ==
  LET firsts == SelectSeq([i \in 1..Len(keys) |-> i],
                          LAMBDA i : \A j \in 1..(i - 1) : keys[j] # keys[i])
  IN  [e \in 1..Len(firsts) |->
         [combination |-> keys[firsts[e]],
          frequency |-> Cardinality({j \in 1..Len(keys) : keys[j] = keys[firsts[e]]})]]

\* Object.entries(combinationFrequency).map(...)
ObjectEntries(acc) ==
  LET indexed == SelectSeq(acc, LAMBDA e : IsArrayIndex(e.combination))
  IN  Sort(indexed, [i \in 1..Len(indexed) |-> DigitsVal(indexed[i].combination)])
      \o SelectSeq(acc, LAMBDA e : ~IsArrayIndex(e.combination))

RECURSIVE Flatten(_)
Flatten(qq) == IF Len(qq) = 0 THEN <<>> ELSE Head(qq) \o Flatten(Tail(qq))

\* the keys counted by the two nested loops, in the order they are counted
CombinationKeys(rows, k) ==
  LET scan == RowsInOrder(rows)
      KeysOf(row) ==
        LET numbers == [c \in 1..6 |-> row[PrimaryCols[c]]]
            combos == combinations(numbers, k)
        IN  [i \in 1..Len(combos) |-> join(SortAscending(combos[i]))]
  IN  Flatten([i \in 1..Len(scan) |-> KeysOf(scan[i])])

Ranking(rows, k) ==
  LET sorted == SortByFrequency(ObjectEntries(Tally(CombinationKeys(rows, k))))
  IN  SubSeq(sorted, 1, IF Len(sorted) < TopN THEN Len(sorted) ELSE TopN)

\* DBManager.getFrequentCombinations(k)
getFrequentCombinations(k) ==
  IF ~disk.exists
  THEN [op |-> "getFrequentCombinations", input |-> k, status |-> "error", value |-> <<>>,
        error |-> <<"Failed to retrieve frequent combinations">>]
  ELSE [op |-> "getFrequentCombinations", input |-> k, status |-> "ok", value |-> Ranking(disk.rows, k),
        error |-> <<>>]

\* parseInt(string): the integer a leading run of digits (after an optional sign)
\* denotes; NaN when there is none, and for undefined
ParseInt(v) ==
  LET str == IF v.t = "text" THEN v.s ELSE <<>>
      neg == Len(str) > 0 /\ str[1] = "-"
      body == IF neg THEN Tail(str) ELSE str
      stops == {i \in 1..Len(body) : ~IsDigit(body[i])}
      len == IF stops = {} THEN Len(body) ELSE (CHOOSE i \in stops : \A j \in stops : i <= j) - 1
      val == DigitsVal(SubSeq(body, 1, len))
  IN  IF len = 0 THEN [nan |-> TRUE, n |-> 0] ELSE [nan |-> FALSE, n |-> IF neg THEN 0 - val ELSE val]

\* parseInt(x) || d
ParseIntOr(v, d) == LET p == ParseInt(v) IN IF p.nan \/ p.n = 0 THEN d ELSE p.n

\* the k values a direct caller passes, and the k query strings a request carries
KValues == 0..7
KQueries == {Undef, TextV(<<"0">>), TextV(<<"1">>), TextV(<<"2">>), TextV(<<"6">>), TextV(<<"7">>),
             TextV(<<"-", "1">>), TextV(<<"x">>), TextV(<<"3", "x">>)}

\* app.get('/combinaciones')
Combinaciones(q) ==
  LET k == ParseIntOr(q, 1)
  IN  IF k < 1 \/ k > 6
      THEN [op |-> "GET /combinaciones", input |-> q, status |-> "400", k |-> k, value |-> <<>>,
            error |-> <<"El valor de k debe estar entre 1 y 6">>]
      ELSE LET r == getFrequentCombinations(k)
           IN  IF r.status = "ok"
               THEN [op |-> "GET /combinaciones", input |-> q, status |-> "200", k |-> k, value |-> r.value,
                     error |-> <<>>]
               ELSE [op |-> "GET /combinaciones", input |-> q, status |-> "500", k |-> k, value |-> <<>>,
                     error |-> <<"Error al obtener las combinaciones">>]

GetFrequentCombinationsCall ==
  /\ pc = "idle" /\ resp = NoResp
  /\ \E k \in KValues : resp' = getFrequentCombinations(k)
  /\ UNCHANGED <<disk, view, txn, fk, handle, pc, stack, mode, records, idx, err, faults,
                 pre, prev, rerun, lastCatch, out>>
  /\ UNCHANGED srv

CombinacionesRequest ==
  /\ pc = "idle" /\ resp = NoResp
  /\ \E q \in KQueries : resp' = Combinaciones(q)
  /\ UNCHANGED <<disk, view, txn, fk, handle, pc, stack, mode, records, idx, err, faults,
                 pre, prev, rerun, lastCatch, out>>
  /\ UNCHANGED srv

\* the rows by ascending CONCURSO
ConcursosAsc(rows) == RowsInOrder(rows)
\* ORDER BY CONCURSO DESC
ConcursosDesc(rows) ==
  LET asc == RowsInOrder(rows)
  IN  [i \in 1..Len(asc) |-> asc[Len(asc) + 1 - i]]

\* LIMIT ? OFFSET ? : a negative LIMIT is no limit, a negative OFFSET is 0
LimitOffset(q, limit, offset) ==
  LET from == (IF offset < 0 THEN 0 ELSE offset) + 1
      to == IF limit < 0 \/ from + limit - 1 > Len(q) THEN Len(q) ELSE from + limit - 1
  IN  IF from > to THEN <<>> ELSE SubSeq(q, from, to)

\* DBManager.getConcursos(limit, offset)
getConcursos(limit, offset) ==
  IF disk.exists
  THEN [op |-> "getConcursos", limit |-> limit, offset |-> offset, status |-> "ok",
        value |-> LimitOffset(ConcursosDesc(disk.rows), limit, offset), error |-> <<>>]
  ELSE [op |-> "getConcursos", limit |-> limit, offset |-> offset, status |-> "error",
        value |-> <<>>, error |-> <<"Failed to retrieve concursos">>]

\* the page and limit query strings a request carries
PageQueries == {Undef, TextV(<<"2">>), TextV(<<"0">>), TextV(<<"-", "1">>)}
LimitQueries == {Undef, TextV(<<"1">>), TextV(<<"2">>), TextV(<<"3">>), TextV(<<"-", "1">>), TextV(<<"x">>)}

\* app.get('/concursos'); called tells whether getConcursos was called, and limit
\* and offset are what it was called with
Concursos(q) ==
  LET page == ParseIntOr(q.page, 1)
      limit == ParseIntOr(q.limit, 10)
      offset == (page - 1) * limit
  IN  IF limit > maxPageSize
      THEN [op |-> "GET /concursos", input |-> q, status |-> "400", called |-> FALSE,
            limit |-> limit, offset |-> offset, value |-> <<>>,
            error |-> <<"El límite máximo permitido es">>]
      ELSE LET r == getConcursos(limit, offset)
           IN  IF r.status = "ok"
               THEN [op |-> "GET /concursos", input |-> q, status |-> "200", called |-> TRUE,
                     limit |-> limit, offset |-> offset, value |-> r.value, error |-> <<>>]
               ELSE [op |-> "GET /concursos", input |-> q, status |-> "500", called |-> TRUE,
                     limit |-> limit, offset |-> offset, value |-> <<>>,
                     error |-> <<"Error al obtener los concursos">>]

\* the limits and offsets a direct caller passes
Limits == {-1, 1, 2}
Offsets == {-1, 0, 1, 2, 3}

GetConcursosCall ==
  /\ pc = "idle" /\ resp = NoResp
  /\ \E limit \in Limits, offset \in Offsets : resp' = getConcursos(limit, offset)
  /\ UNCHANGED <<disk, view, txn, fk, handle, pc, stack, mode, records, idx, err, faults,
                 pre, prev, rerun, lastCatch, out>>
  /\ UNCHANGED srv

ConcursosRequest ==
  /\ pc = "idle" /\ resp = NoResp
  /\ \E page \in PageQueries, limit \in LimitQueries :
       resp' = Concursos([page |-> page, limit |-> limit])
  /\ UNCHANGED <<disk, view, txn, fk, handle, pc, stack, mode, records, idx, err, faults,
                 pre, prev, rerun, lastCatch, out>>
  /\ UNCHANGED srv

\* an ingestion method called by the script has not returned yet
InRun == stack # <<>> /\ stack[Len(stack)].ok = "sc_done"

\* app.get('/total-concursos'): SELECT COUNT(*) AS total FROM Concursos on the server's
\* own handle, which reads what is committed; during tells whether an ingestion was
\* in progress in the script's process when the request was served
TotalConcursos ==
  IF disk.exists
  THEN [op |-> "GET /total-concursos", status |-> "200", value |-> Cardinality(disk.rows),
        error |-> <<>>, during |-> InRun]
  ELSE [op |-> "GET /total-concursos", status |-> "500", value |-> 0,
        error |-> <<"Error fetching total concursos">>, during |-> InRun]

\* the server is a process of its own: it answers while the script is not running
\* and at any point of an ingestion method
TotalConcursosRequest ==
  /\ resp = NoResp
  /\ pc = "idle" \/ InRun
  /\ resp' = TotalConcursos
  /\ UNCHANGED <<disk, view, txn, fk, handle, pc, stack, mode, records, idx, err, faults,
                 pre, prev, rerun, lastCatch, out>>
  /\ UNCHANGED srv

\* the answer has gone to the caller
Reply ==
  /\ resp # NoResp
  /\ resp' = NoResp
  /\ UNCHANGED <<disk, view, txn, fk, handle, pc, stack, mode, records, idx, err, faults,
                 pre, prev, rerun, lastCatch, out>>
  /\ UNCHANGED srv

Next ==
  \/ \E m \in Modes : Start(m)
  \/ Download
  \/ connect
  \/ CallStep
  \/ Step
  \/ StorageFault
  \/ Dispatch
  \/ ScanOk
  \/ ScanParseError
  \/ ScanReadError
  \/ InsGet
  \/ InsInsert
  \/ Catch
  \/ ScriptDone
  \/ ScriptCatch
  \/ close
  \/ closeFails
  \/ ProcessExit
  \/ RunAgain
  \/ Restart
  \/ FindCombinationCall
  \/ BuscarCombinacionRequest
  \/ GetFrequentCombinationsCall
  \/ CombinacionesRequest
  \/ TotalConcursosRequest
  \/ GetConcursosCall
  \/ ConcursosRequest
  \/ Reply

Spec == Init /\ [][Next]_vars

\* ------------------------------------------------------------------------
\* The request layer: each handler runs try { ensureDBConnection(); query }
\* finally { close() } on the shared DBManager. A handler gives way to the others
\* only where it awaits input or output: the probe of isConnected(), open(), the
\* query and this.db.close(); what it does between two of them is one step.
\* ------------------------------------------------------------------------
SetHandler(i, h, db) == srv' = [srv EXCEPT !.db = db, !.h[i] = h]

\* isConnected() without the catch around its probe
isConnectedNoCatch(db, probe) ==
  IF db = "absent" THEN [called |-> TRUE, value |-> FALSE, raised |-> FALSE]
  ELSE IF probe = "ok" THEN [called |-> TRUE, value |-> TRUE, raised |-> FALSE]
  ELSE [called |-> TRUE, value |-> FALSE, raised |-> TRUE]

\* isConnected(): what it returns for the handle it found and the outcome of its
\* probe ("none": no probe was sent)
isConnected(db, probe) ==
  IF db = "absent" THEN [called |-> TRUE, value |-> FALSE, raised |-> FALSE]
  ELSE IF probe = "ok" THEN [called |-> TRUE, value |-> TRUE, raised |-> FALSE]
  ELSE [called |-> TRUE, value |-> FALSE, raised |-> FALSE]

\* close() that calls this.db.close() whatever this.db is
closeEntryUnguarded(h, db) ==
  IF db = "absent"
  THEN [h EXCEPT !.pc = "idle", !.closeSaw = db, !.closeRes = "raised"]
  ELSE [h EXCEPT !.pc = "probe", !.ret = "closeIf", !.closeSaw = db,
                 !.seen = db, !.probe = "none", !.isc = NotCalled]

\* close() is entered: if (this.db && await this.isConnected()) ... else warn
closeEntry(h, db) ==
  IF db = "absent"
  THEN [h EXCEPT !.pc = "idle", !.closeSaw = db, !.closeRes = "noop"]
  ELSE [h EXCEPT !.pc = "probe", !.ret = "closeIf", !.closeSaw = db,
                 !.seen = db, !.probe = "none", !.isc = NotCalled]

\* ensureDBConnection() is entered: isConnected() answers at once on an absent
\* handle and connect() starts, else the probe is sent
ensureEntry(h, db) ==
  IF db = "absent"
  THEN [h EXCEPT !.pc = "connect", !.seen = db, !.isc = isConnected(db, "none")]
  ELSE [h EXCEPT !.pc = "probe", !.ret = "ensured", !.seen = db]

\* the handler's query: this.db.get(...) on the handle of that moment; on an absent
\* handle the call throws, the handler answers 500 and goes to its finally block
queryEntry(h, db) ==
  IF db = "absent"
  THEN closeEntry([h EXCEPT !.queryOn = db, !.status = "500"], db)
  ELSE [h EXCEPT !.pc = "query", !.queryOn = db]

\* a request arrives: one the handler rejects with 400 before it touches the
\* store, or one it serves
Request(i) ==
  /\ srv.h[i].pc = "idle"
  /\ \E reject \in BOOLEAN :
       IF reject
       THEN SetHandler(i, closeEntry([NoRequest EXCEPT !.status = "400"], srv.db), srv.db)
       ELSE SetHandler(i, ensureEntry(NoRequest, srv.db), srv.db)
  /\ UNCHANGED scriptVars

\* the probe "SELECT 1" of isConnected() ends: it succeeds on a handle that was open
\* when it was sent, unless the store fails it. ensureDBConnection() goes on to the
\* query or to connect(); close() goes on to this.db.close() or to its warning.
ProbeDone(i) ==
  /\ srv.h[i].pc = "probe"
  /\ \E p \in {"ok", "failed"} :
       /\ p = "ok" => srv.h[i].seen = "open"
       /\ LET r == isConnected(srv.h[i].seen, p)
              h == [srv.h[i] EXCEPT !.probe = p, !.isc = r]
          IN  CASE r.raised /\ h.ret = "ensured" ->
                     SetHandler(i, closeEntry([h EXCEPT !.status = "500"], srv.db), srv.db)
                [] r.raised /\ h.ret = "closeIf" ->
                     SetHandler(i, [h EXCEPT !.pc = "idle", !.closeRes = "raised"], srv.db)
                [] ~r.raised /\ h.ret = "ensured" ->
                     SetHandler(i, IF r.value THEN queryEntry(h, srv.db)
                                   ELSE [h EXCEPT !.pc = "connect"], srv.db)
                [] ~r.raised /\ h.ret = "closeIf" ->
                     IF ~r.value
                     THEN SetHandler(i, [h EXCEPT !.pc = "idle", !.closeRes = "noop"], srv.db)
                     ELSE IF srv.db = "absent"
                     THEN SetHandler(i, [h EXCEPT !.pc = "idle", !.closeOn = "absent",
                                                  !.closeRes = "failed"], srv.db)
                     ELSE SetHandler(i, [h EXCEPT !.pc = "closing", !.closeOn = srv.db,
                                                  !.cur = TRUE], "closing")
  /\ UNCHANGED scriptVars

\* connect(): this.db = await open(...) ends: the new Database object takes the
\* place of whatever this.db referred to, and the handler sends its query; or the
\* file could not be opened and the handler answers 500
ConnectDone(i) ==
  /\ srv.h[i].pc = "connect"
  /\ \/ /\ srv.live < MaxLive
        /\ srv' = [db |-> "open", live |-> srv.live + 1,
                   h |-> [j \in Handlers |->
                           IF j = i THEN queryEntry(srv.h[i], "open")
                           ELSE [srv.h[j] EXCEPT !.cur = FALSE]]]
     \/ SetHandler(i, closeEntry([srv.h[i] EXCEPT !.status = "500"], srv.db), srv.db)
  /\ UNCHANGED scriptVars

\* the query ends: it fails on a handle that was being closed when it was sent,
\* and can fail in the store; the answer goes out and the finally block calls close()
QueryDone(i) ==
  /\ srv.h[i].pc = "query"
  /\ \E status \in {"200", "500"} :
       /\ status = "200" => srv.h[i].queryOn = "open"
       /\ SetHandler(i, closeEntry([srv.h[i] EXCEPT !.status = status], srv.db), srv.db)
  /\ UNCHANGED scriptVars

\* this.db.close() ends: on the Database object that was open it succeeds, the
\* object is closed and this.db = null follows, whatever this.db refers to by
\* then; or the store refuses and the object stays open; on an object another
\* close() had taken first it is rejected. The catch block logs a failure.
CloseDone(i) ==
  /\ srv.h[i].pc = "closing"
  /\ \/ /\ srv.h[i].closeOn = "open"
        /\ srv' = [srv EXCEPT !.db = "absent", !.live = srv.live - 1,
                               !.h[i] = [srv.h[i] EXCEPT !.pc = "idle", !.cur = FALSE,
                                                         !.closeRes = "closed"]]
     \/ SetHandler(i, [srv.h[i] EXCEPT !.pc = "idle", !.cur = FALSE, !.closeRes = "failed"],
                   IF srv.h[i].closeOn = "open" /\ srv.h[i].cur /\ srv.db = "closing"
                   THEN "open" ELSE srv.db)
  /\ UNCHANGED scriptVars

ServerNext ==
  \/ \E i \in Handlers : Request(i)
  \/ \E i \in Handlers : ProbeDone(i)
  \/ \E i \in Handlers : ConnectDone(i)
  \/ \E i \in Handlers : QueryDone(i)
  \/ \E i \in Handlers : CloseDone(i)

\* the server alone, its requests in any interleaving
ServerSpec == Init /\ [][ServerNext]_vars

\* ------------------------------------------------------------------------
\* Properties
\* ------------------------------------------------------------------------
\* a run of the script has ended in insertNewOnly / reloadAll mode
InsertRunEnded == pc = "close" /\ mode = "insertNewOnly"
ReloadRunEnded == pc = "close" /\ mode = "reloadAll"

\* the record carries a drawId: its CONCURSO cell is an integer text
HasDrawId(rec) == rec["CONCURSO"].t = "text" /\ IsIntText(rec["CONCURSO"].s)
DrawId(rec) == IntV(IntOfText(rec["CONCURSO"].s))
Stored(rows, id) == \E r \in rows : RowKey(r) = id

\* a stored cell holds the value of a source cell: it reads back as the cell's
\* text, and an absent cell is stored as NULL
SameValue(cell, src) == IF src.t = "undef" THEN cell.t = "null" ELSE cell.t # "null" /\ StringOf(cell) = src.s
SameDraw(row, rec) == \A c \in ColSet : SameValue(row[c], rec[c])

\* C1 (as claimed): a reloadAll run on which no storage fault strikes completes
\* successfully and leaves exactly the records of the source in the store, none
\* of the old draws among them unless the source carries it.
C1_ReloadReplacesStore ==
  (ReloadRunEnded /\ faults = 0 /\ (lastCatch.op = "rl_catch" \/ out.status = "ok"))
    => /\ out.status = "ok"
       /\ Cardinality(disk.rows) = Len(records)
       /\ \A r \in disk.rows : \E i \in 1..Len(records) : SameDraw(r, Catalogue[records[i]])

\* C2 (as claimed): after a successful insertNewOnly over a non-empty source, every
\* source record whose drawId was not stored before is stored with that record's
\* field values, and every draw stored before is unchanged.
C2_EverySourceRecordStored ==
  (InsertRunEnded /\ out.status = "ok" /\ Len(records) > 0)
    => /\ \A i \in 1..Len(records) :
            LET rec == Catalogue[records[i]]
            IN  (HasDrawId(rec) /\ ~Stored(pre.rows, DrawId(rec)))
                  => \E r \in disk.rows : RowKey(r) = DrawId(rec) /\ SameDraw(r, rec)
       /\ \A r \in pre.rows : r \in disk.rows

\* every candidate is one of the six primary numbers of the row
ContainsAll(row, list) ==
  \A i \in 1..Len(list) : \E c \in 1..6 : row[PrimaryCols[c]] = IntV(list[i])

\* C3 (as claimed): for a non-empty candidate list, findCombination and the
\* /buscar-combinacion handler return the number of stored draws whose primary
\* numbers R1..R6 contain every candidate, in whatever column.
C3_CountsDrawsContainingAll ==
  (/\ resp.op \in {"findCombination", "POST /buscar-combinacion"}
   /\ ~resp.input.isNull /\ Len(resp.input.list) > 0 /\ disk.exists)
    => /\ resp.status \in {"ok", "200"}
       /\ resp.value = Cardinality({r \in disk.rows : ContainsAll(r, resp.input.list)})

\* C4 (as claimed): a second insertNewOnly run over the same source succeeds,
\* inserts nothing and leaves the store as the first run left it.
C4_SecondRunInsertsNothing ==
  (InsertRunEnded /\ rerun /\ faults = 0 /\ (lastCatch.op = "ins_catch" \/ out.status = "ok"))
    => out.status = "ok" /\ disk = pre

\* C5 (as claimed): an insertNewOnly run that fails at any step goes through
\* ROLLBACK and raises an error to its caller; afterwards the store is what it
\* was before the run and no transaction is open on the handle.
C5_FailureRollsBack ==
  (mode = "insertNewOnly" /\ ((pc = "close" /\ lastCatch.op = "ins_catch") \/ pc = "crashed"))
    => /\ out.status = "error" /\ lastCatch.op = "ins_catch"
       /\ disk = pre /\ ~txn

\* C6: after a failed reloadAll run the draw table exists with exactly the rows
\* it had before the run.
C6_FailedReloadKeepsTable ==
  (ReloadRunEnded /\ lastCatch.op = "rl_catch") => disk.exists /\ disk.rows = pre.rows

\* C6 witness: a reloadAll run failed on a store that held draws, after the
\* transaction had changed the table.
C6_Witness ==
  ReloadRunEnded /\ lastCatch.op = "rl_catch" /\ lastCatch.dirty /\ pre.rows # {} /\ out.status = "error"

\* C7 (as claimed): when the ROLLBACK of an ingestion method's catch block fails,
\* the error raised is the original failure under the method's message.
C7_RollbackFailureKeepsCause ==
  (lastCatch.op \in CatchLabels /\ ~lastCatch.rolledBack)
    => lastCatch.raised = Program(lastCatch.op).wrap \o lastCatch.cause

\* the record lacks a required field: a column is absent, or the CONCURSO cell is empty
Malformed(rec) == \E c \in ColSet : rec[c].t = "undef" \/ (c = "CONCURSO" /\ rec[c].s = <<>>)

\* C8 (as claimed): an insertNewOnly run over a source with a record that lacks a
\* required field fails, and the number of stored draws is what it was.
C8_MalformedSourceFails ==
  (InsertRunEnded /\ \E i \in 1..Len(records) : Malformed(Catalogue[records[i]]))
    => out.status = "error" /\ Cardinality(disk.rows) = Cardinality(pre.rows)

\* the k a caller asked for is outside 1..6
KOutOfRange ==
  \/ resp.op = "getFrequentCombinations" /\ resp.input \notin 1..6
  \/ /\ resp.op = "GET /combinaciones"
     /\ ~ParseInt(resp.input).nan /\ ParseInt(resp.input).n \notin 1..6

\* C9 (as claimed): frequentCombinations with k outside 1..6 fails and returns no
\* ranking, called directly or through the /combinaciones handler.
C9_OutOfRangeRejected == KOutOfRange => resp.status \notin {"ok", "200"}

\* C10 (as claimed): an empty or null candidate list is rejected before any query
\* is handed to the database, and no count comes back.
C10_EmptyListRejected ==
  (/\ resp.op \in {"findCombination", "POST /buscar-combinacion"}
   /\ (resp.input.isNull \/ Len(resp.input.list) = 0))
    => resp.status \notin {"ok", "200"} /\ resp.sent = 0

\* a ranking came back for a k in 1..6, from the method or from the handler
RankingAnswer ==
  \/ resp.op = "getFrequentCombinations" /\ resp.status = "ok" /\ resp.input \in 1..6
  \/ resp.op = "GET /combinaciones" /\ resp.status = "200"
AnswerK == IF resp.op = "getFrequentCombinations" THEN resp.input ELSE resp.k

\* how often a combination was counted over the stored draws
CountOf(keys, key) == Cardinality({j \in 1..Len(keys) : keys[j] = key})

RECURSIVE Fields(_)
Fields(key) ==
  LET commas == {i \in 1..Len(key) : key[i] = ","}
  IN  IF commas = {} THEN <<key>>
      ELSE LET first == CHOOSE i \in commas : \A j \in commas : i <= j
           IN  <<SubSeq(key, 1, first - 1)>> \o Fields(SubSeq(key, first + 1, Len(key)))

\* every number the key names is one of the six primary numbers of the row
ContainsKey(row, key) ==
  \A f \in 1..Len(Fields(key)) : \E c \in 1..6 : StringOf(row[PrimaryCols[c]]) = Fields(key)[f]

\* C(6, k)
Choose6 == <<6, 15, 20, 15, 6, 1>>

\* the six primary numbers of the row are integers, no two of them equal
SixDistinct(row) ==
  /\ \A c \in 1..6 : row[PrimaryCols[c]].t = "int"
  /\ \A c, d \in 1..6 : c # d => row[PrimaryCols[c]] # row[PrimaryCols[d]]

\* C12 (as claimed): for k in 1..6 the frequency reported for a combination is the
\* number of stored draws whose six primary numbers contain all its numbers; over a
\* single stored draw of six distinct numbers the ranking holds min(20, C(6,k))
\* combinations, each with frequency 1.
C12_FrequencyCountsDraws ==
  RankingAnswer =>
    /\ \A i \in 1..Len(resp.value) :
         resp.value[i].frequency
           = Cardinality({r \in disk.rows : ContainsKey(r, resp.value[i].combination)})
    /\ (Cardinality(disk.rows) = 1 /\ \A r \in disk.rows : SixDistinct(r))
         => /\ Len(resp.value) = (IF Choose6[AnswerK] < 20 THEN Choose6[AnswerK] ELSE 20)
            /\ \A i \in 1..Len(resp.value) : resp.value[i].frequency = 1

\* C13 (as claimed): for k in 1..6 and any store the ingestion can produce, every
\* entry of the ranking names exactly k numbers, no two of them equal, all of them
\* among the six primary numbers of one stored draw.
C13_EntriesAreDistinctNumbers ==
  RankingAnswer =>
    \A i \in 1..Len(resp.value) :
      LET fields == Fields(resp.value[i].combination)
      IN  /\ Len(fields) = AnswerK
          /\ \A f \in 1..Len(fields) : IsIntText(fields[f])
          /\ \A f, g \in 1..Len(fields) : f # g => fields[f] # fields[g]
          /\ \E r \in disk.rows : ContainsKey(r, resp.value[i].combination)

\* C14: while an ingestion method runs, what is committed changes at most once, at
\* the COMMIT, from the table as it was before the run to the table with the whole
\* batch; a total count served during the run is the count before the run or the
\* count after it.
C14_ReadersSeePreOrPost ==
  /\ []((resp.op = "GET /total-concursos" /\ resp.during /\ InRun)
          => /\ resp.status = "200"
             /\ resp.value \in {Cardinality(pre.rows), Cardinality(disk.rows)})
  /\ [][(InRun /\ disk' # disk)
          => /\ disk = pre /\ disk'.exists
             /\ pc \in {"ins_commit", "rl_commit"} /\ disk' = view]_vars

\* C14 witness: a total count was served while an insertNewOnly run had inserted a
\* part of its batch and not yet committed.
C14_Witness ==
  /\ InRun /\ mode = "insertNewOnly" /\ pc = "ins_get"
  /\ txn /\ view.rows # disk.rows /\ idx <= Len(records)
  /\ resp.op = "GET /total-concursos" /\ resp.during /\ resp.value = Cardinality(disk.rows)

\* the scan of the source failed: the parser rejected the file, or the file could
\* not be read
ParseFailed == lastCatch.op = "ins_catch" /\ lastCatch.cause = <<"csv-parser: row exceeds the maximum size">>
ScanFailed == mode = "insertNewOnly" /\ (pc = "crashed" \/ (pc = "close" /\ ParseFailed))

\* C15 (as claimed): while insertNewOnly scans its source no statement has been
\* sent to the store, BEGIN TRANSACTION included: no transaction is open.
C15_NothingSentBeforeScanEnds == pc = "ins_scan" => ~txn

\* C15 (amended): insertNewOnly opens its transaction and then scans the source;
\* while it scans, the transaction is open and the table is as it was before the
\* run, for the handle and on disk; a run whose scan fails ends with the store as it
\* was before the run.
C15_ScanBeforeTableAccess ==
  /\ pc = "ins_scan" => txn /\ view = pre /\ disk = pre
  /\ ScanFailed => disk = pre

\* C15 witness: the parser rejected the source of an insertNewOnly run on a store
\* that held draws, and the run has ended.
C15_Witness ==
  /\ ScanFailed /\ ParseFailed /\ lastCatch.rolledBack
  /\ pre.rows # {} /\ out.status = "error"

\* C16 (as claimed): a catch block of a core operation that caught a storage failure
\* raises an error to the caller, and the error carries the operation's message;
\* close on an open handle is no exception.
C16_FailuresReachCaller ==
  lastCatch.op # "none"
    => /\ lastCatch.raised # <<>>
       /\ lastCatch.op \in CatchLabels
            => /\ Len(lastCatch.raised) >= Len(Program(lastCatch.op).wrap)
               /\ SubSeq(lastCatch.raised, 1, Len(Program(lastCatch.op).wrap))
                    = Program(lastCatch.op).wrap

\* C17: in every state no two rows of the table share a drawId, on disk and as the
\* open handle sees it, and no ingestion run fails on the primary key: a source that
\* repeats a drawId has its first record inserted and the later ones skipped.
C17_DrawIdsUnique ==
  /\ \A t \in {disk, view} : \A r1, r2 \in t.rows : RowKey(r1) = RowKey(r2) => r1 = r2
  /\ \A i \in 1..Len(lastCatch.cause) :
       lastCatch.cause[i] # "SQLITE_CONSTRAINT: UNIQUE constraint failed"
  /\ \A i \in 1..Len(err) : err[i] # "SQLITE_CONSTRAINT: UNIQUE constraint failed"

\* C17 witness: a successful insertNewOnly run over a source that carries a new
\* drawId in two records; the drawId is stored.
C17_Witness ==
  /\ InsertRunEnded /\ out.status = "ok"
  /\ \E i, j \in 1..Len(records) :
       /\ i < j
       /\ HasDrawId(Catalogue[records[i]]) /\ HasDrawId(Catalogue[records[j]])
       /\ DrawId(Catalogue[records[i]]) = DrawId(Catalogue[records[j]])
       /\ Catalogue[records[i]] # Catalogue[records[j]]
       /\ ~Stored(pre.rows, DrawId(Catalogue[records[i]]))
       /\ Stored(disk.rows, DrawId(Catalogue[records[i]]))

\* C18: outside a reloadAll run no step removes or changes a stored draw or drops the
\* table: what is committed only grows; and a step that answers a reader, connects
\* or closes leaves the table as it is, on disk and for the open handle's transaction.
C18_OnlyReloadRemovesDraws ==
  /\ [][mode # "reloadAll"
          => /\ \A r \in disk.rows : r \in disk'.rows
             /\ disk.exists => disk'.exists]_vars
  /\ [][(resp' # resp \/ pc \in {"connect", "close", "exit", "ct_exists"}) => disk' = disk]_vars

\* C18 witness: an insertNewOnly run on a store that held draws has added draws, and
\* a reader was answered during the run.
C18_Witness ==
  /\ InsertRunEnded /\ out.status = "ok"
  /\ pre.rows # {} /\ pre.rows \subseteq disk.rows /\ disk.rows # pre.rows
  /\ resp.op = "GET /total-concursos" /\ resp.during

\* C19 (as claimed): the /concursos handler calls getConcursos only with a limit in
\* 1..maxPageSize and an offset of 0 or more, and no answer of it holds more than
\* maxPageSize draws.
C19_PageWithinMaximum ==
  resp.op = "GET /concursos"
    => /\ resp.called => (1 <= resp.limit /\ resp.limit <= maxPageSize /\ resp.offset >= 0)
       /\ Len(resp.value) <= maxPageSize

\* C20: getConcursos(limit, offset) with limit >= 1 and offset >= 0 returns the draws
\* at positions offset .. offset+limit-1 of the store in descending drawId order:
\* as many as are left there, the i-th of them with offset+i-1 stored draws above it.
C20_PageOfDescendingStore ==
  (resp.op = "getConcursos" /\ resp.limit >= 1 /\ resp.offset >= 0 /\ disk.exists)
    => LET n == Cardinality(disk.rows)
           left == IF n > resp.offset THEN n - resp.offset ELSE 0
       IN  /\ resp.status = "ok"
           /\ Len(resp.value) = (IF left < resp.limit THEN left ELSE resp.limit)
           /\ \A i \in 1..Len(resp.value) :
                /\ resp.value[i] \in disk.rows
                /\ Cardinality({r \in disk.rows : RowKey(r).n > RowKey(resp.value[i]).n})
                     = resp.offset + i - 1

\* C20 witness: a full page from the middle of the store: draws before it and
\* draws after it.
C20_Witness ==
  /\ resp.op = "getConcursos" /\ resp.status = "ok"
  /\ resp.limit >= 1 /\ resp.offset >= 1 /\ Len(resp.value) = resp.limit
  /\ Cardinality(disk.rows) > resp.offset + resp.limit

\* a request handler has sent a statement on the draw table for the answer at hand
TableStatementIssued ==
  \/ resp.op = "GET /total-concursos"
  \/ resp.op = "GET /concursos" /\ resp.called
  \/ resp.op = "GET /combinaciones" /\ resp.status # "400"
  \/ resp.op = "POST /buscar-combinacion" /\ resp.sent = 1

\* C21 (as claimed): no statement on the draw table is issued on a store in which
\* the table has not been established: the batch script enters its ingestion
\* method with the table in place, and a request handler that has sent its query
\* on the table has sent it to a store that holds the table.
C21_TableEstablishedBeforeUse ==
  /\ pc \in {"sc_insert", "sc_reload"} => view.exists
  /\ TableStatementIssued => disk.exists

\* C22: close() called on a handle that is absent (never opened, or already closed)
\* completes without raising and changes nothing; a close() that succeeds leaves
\* the handle absent; isConnected() on an absent handle returns false, so that the
\* next close() is a no-op again. No close() raises in any state.
C22_CloseOnAbsentHandleIsNoOp ==
  /\ [](\A i \in Handlers :
          /\ srv.h[i].closeRes # "raised"
          /\ srv.h[i].closeSaw = "absent" => (srv.h[i].closeRes = "noop" /\ srv.h[i].pc = "idle")
          /\ (srv.h[i].isc.called /\ srv.h[i].seen = "absent") => ~srv.h[i].isc.value)
  /\ [][\A i \in Handlers :
          /\ (srv'.h[i] # srv.h[i] /\ srv'.h[i].closeSaw = "absent")
               => (srv.db = "absent" /\ srv'.db = "absent")
          /\ (srv.h[i].pc = "closing" /\ srv'.h[i].closeRes = "closed")
               => srv'.db = "absent"]_vars

\* C22 witness: one handler's close() has closed the handle, and the close() of
\* another, whose query had been answered on the open handle, found it absent and
\* ended as a no-op.
C22_Witness ==
  \E i, j \in Handlers :
    /\ i # j /\ srv.db = "absent"
    /\ srv.h[i].pc = "idle" /\ srv.h[i].closeRes = "closed"
    /\ srv.h[j].pc = "idle" /\ srv.h[j].status = "200"
    /\ srv.h[j].closeSaw = "absent" /\ srv.h[j].closeRes = "noop"

\* C23: isConnected() never raises: every call of it returns, false when it found
\* the handle absent or when its probe failed, and true only when its probe succeeded.
C23_IsConnectedNeverRaises ==
  \A i \in Handlers :
    srv.h[i].isc.called
      => /\ ~srv.h[i].isc.raised
         /\ (srv.h[i].seen = "absent" \/ srv.h[i].probe = "failed") => ~srv.h[i].isc.value
         /\ srv.h[i].isc.value => (srv.h[i].seen # "absent" /\ srv.h[i].probe = "ok")

\* C23 witness: isConnected() has returned false to one handler after a failed probe
\* on a handle that was there, and true to another.
C23_Witness ==
  \E i, j \in Handlers :
    /\ srv.h[i].isc.called /\ srv.h[i].seen # "absent" /\ srv.h[i].probe = "failed"
    /\ ~srv.h[i].isc.value
    /\ srv.h[j].isc.called /\ srv.h[j].isc.value

\* C24: createTableIfNotExists is idempotent: called when the draw table exists it
\* returns normally, issues no schema change and keeps every stored draw (the table
\* is the same on disk and for the handle); and when it has returned the table
\* exists, so that any further call in a row finds it and changes nothing.
C24_CreateTableIdempotent ==
  /\ [](pc \in {"dispatch", "rl_insert"} => view.exists)
  /\ [][(pc \in CtLabels /\ view.exists /\ faults' = faults)
          => (disk' = disk /\ view' = view /\ pc' = Head(stack).ok)]_vars

\* C24 witness: the script has called createTableIfNotExists on a store that
\* already held the table with draws in it, and the call has returned.
C24_Witness ==
  /\ pc = "dispatch" /\ disk.exists /\ disk.rows # {} /\ disk = pre /\ view = disk

\* two candidate lists name the same set of numbers
SameNumbers(a, b) ==
  /\ ~a.isNull /\ ~b.isNull /\ a.list # <<>>
  /\ {a.list[i] : i \in 1..Len(a.list)} = {b.list[i] : i \in 1..Len(b.list)}

ReloadCallEnded ==
  ReloadRunEnded /\ faults = 0 /\ (out.status = "ok" \/ lastCatch.op = "rl_catch")

C27_EmptySourceCommitsNothing ==
  /\ []((mode = "insertNewOnly" /\ pc = "ins_commit" /\ records = <<>>) => (txn /\ view = pre))
  /\ []((InsertRunEnded /\ out.status = "ok" /\ records = <<>>) => disk = pre)
  /\ [][(mode = "insertNewOnly" /\ pc = "ins_get" /\ records = <<>> /\ pc' # pc)
          => (pc' = "ins_commit" /\ UNCHANGED dbVars)]_vars
  /\ [][(mode = "insertNewOnly" /\ pc = "ins_commit" /\ records = <<>> /\ pc' # pc
           /\ faults' = faults)
          => (pc' = "sc_done" /\ ~txn' /\ disk' = pre /\ view' = pre)]_vars

\* C27 witness: an insertNewOnly run on an empty source has ended successfully on
\* a store that held draws.
C27_Witness ==
  /\ InsertRunEnded /\ out.status = "ok" /\ records = <<>>
  /\ pre.rows # {} /\ disk = pre

\* the download of the run at hand has failed
DownloadFailed ==
  pc \in {"connect", "sc_catch", "close"} /\ err = <<"Error en la función fetch de descarga">>

\* C28: in the batch script connect is reached only from a download that has
\* completed successfully, and every statement of table creation and ingestion
\* runs on the handle connect has opened; when the download fails the script goes
\* to its catch block: no connect, no table creation and no ingestion statement is
\* executed, and the store is as it was when the run started.
C28_IngestionOnlyAfterDownload ==
  /\ [](DownloadFailed
          => /\ pc # "connect" /\ handle = "absent" /\ ~txn /\ stack = <<>>
             /\ lastCatch = NoCatch /\ disk = pre /\ view = disk)
  /\ []((pc \in StmtLabels \cup CallLabels \cup {"dispatch", "ins_scan", "ins_get", "ins_insert"})
          => handle = "open")
  /\ [][(pc' # pc /\ pc' = "connect") => (pc = "download" /\ err' = <<>>)]_vars
  /\ [][(pc = "download" /\ pc' # pc) => pc' \in {"connect", "sc_catch"}]_vars
  /\ [][(handle = "absent" /\ handle' = "open") => pc = "connect"]_vars

\* C28 witness: a run in an ingestion mode has ended after a failed download on a
\* store that holds draws.
C28_Witness ==
  /\ DownloadFailed /\ pc = "close" /\ out.status = "error"
  /\ mode \in {"insertNewOnly", "reloadAll"} /\ disk.rows # {}

\* C29 (as claimed): a reloadAll run uses exactly one transaction: no BEGIN is
\* issued while a transaction is open on the handle, the drop, the create and
\* every insert happen inside the transaction, and the run ends with one COMMIT or
\* one ROLLBACK applied to it: a failed run has rolled back in reloadAllData's
\* catch block and leaves no transaction open.
C29_ReloadUsesOneTransaction ==
  /\ (mode = "reloadAll" /\ pc \in {"rl_begin", "ins_begin"}) => ~txn
  /\ (mode = "reloadAll" /\ faults = 0
        /\ (pc \in {"rl_drop", "ins_insert"} \/ (pc \in CtLabels /\ Len(stack) = 2))) => txn
  /\ (ReloadRunEnded /\ lastCatch.op = "rl_catch") => (lastCatch.rolledBack /\ ~txn)

\* C30 (as claimed): with request handlers interleaving at their await points on
\* the one DBManager of the request layer, every handler that has passed
\* ensureDBConnection sends its query on an open handle: never on an absent one,
\* never on one another handler's close() has taken.
C30_QueryOnOpenHandle ==
  \A i \in Handlers : srv.h[i].queryOn \in {"none", "open"}

\* no request is in progress in the request layer
Quiet == \A i \in Handlers : srv.h[i].pc = "idle"

\* C31 (as claimed): at most one storage handle is open per DBManager instance at
\* any time, under any interleaving of the request handlers, and no handle that
\* connect() opened stays open for good: when no request is in progress and the
\* instance refers to no handle, none is open.
C31_OneHandlePerInstance ==
  /\ srv.live <= 1
  /\ (Quiet /\ srv.db = "absent") => srv.live = 0

\* C32 (as claimed): the batch script never terminates with an unhandled error, and
\* every run ends in the close() of its finally block: once the run's outcome is
\* known the script stands at that close() and no statement follows it; a run with
\* an unknown operationMode has performed no ingestion and holds the draws the
\* store held when it started.
C32_EveryRunEndsWithClose ==
  /\ pc # "crashed"
  /\ out.status # "none" => (pc \in {"close", "exit"} /\ stack = <<>>)
  /\ (pc = "close" /\ mode = "other")
       => (lastCatch = NoCatch /\ records = <<>> /\ disk.rows = pre.rows /\ ~txn)

====
